---- MODULE Spec2Model ----
(***************************************************************************)
(* Job coordination of the quiz generation service.                        *)
(*                                                                         *)
(* The model follows one create request from the dependency that hands out *)
(* the RedisClient singleton (dependencies/services.py), through the       *)
(* create endpoint (api/v1/endpoints/quiz_controller.py) and the lock      *)
(* context manager (clients/redis_client.py), to the background task       *)
(* (services/task_service.py) that drives QuizService.generate_quiz        *)
(* (services/quiz_service.py) and writes the progress record.              *)
(*                                                                         *)
(* The coordination store is modelled by its two keys per quiz id:         *)
(* quiz:lock:<id> (token + remaining lifetime) and quiz:progress:<id>      *)
(* (JSON record + remaining lifetime).  Lock commands are answered by the  *)
(* store whenever the client holds a connection; SETEX/GET/DEL of the      *)
(* progress key may raise, which is the case the code handles with         *)
(* `except Exception` in set_progress/get_progress/delete_progress.        *)
(***************************************************************************)
EXTENDS Integers, Sequences, FiniteSets, TLC

(* ------------------------------ bounds --------------------------------- *)
\* number of create requests that arrive
NumReqs == 2
\* number of times the clock advances
MaxTicks == 1

(* ------------------------- program constants --------------------------- *)
LOCK_TTL == 3600
PROGRESS_TTL == 86400

QuizIds == {"q1", "q2"}
Reqs == 1..NumReqs

\* lock.local.token of a Lock object that holds nothing / the absent key
NoToken == 0
FreeLock == [token |-> NoToken, ttl |-> 0]
\* GET on an absent key
NoRecord == [status |-> "NONE"]
NothingRead == [quiz |-> "none", data |-> NoRecord]
\* no parse_with_fallback call is under way
NotParsing == [pc |-> "off"]
NotFusing == [pc |-> "off"]
NotRetrieving == [pc |-> "off"]
NoExc == [stage |-> "none", kind |-> "none", text |-> ""]

TerminalStatus == {"COMPLETED", "FAILED"}
ActiveStatus == {"PENDING", "PROCESSING"}

VARIABLES
    redisUrl,       \* settings.redis_url is configured
    instance,       \* _redis_client_instance is not None
    client,         \* RedisClient._client: "None" or "Conn"
    lockKey,        \* quiz id -> value of quiz:lock:<id>
    progressKey,    \* quiz id -> [data, ttl] of quiz:progress:<id>
    clock,          \* number of clock advances so far
    pc,             \* request -> position in endpoint / background task
    rq,             \* request -> quiz id of the request
    localToken,     \* request -> lock.local.token of the Lock it created
    scheduled,      \* request -> background_tasks.add_task was called
    resp,           \* request -> outcome reported to the caller
    exc,            \* request -> exception caught by generate_quiz_async
    stored,         \* request -> statuses its task wrote that the store kept
    lastGet,        \* what the latest direct get_progress call returned
    parserState,    \* one call of ParserUtils.parse_with_fallback
    fuseState,      \* one call of RRFFusion.fuse
    denseState      \* DenseRetrievers sharing the persisted index files

vars == <<redisUrl, instance, client, lockKey, progressKey, clock, pc, rq,
          localToken, scheduled, resp, exc, stored, lastGet, parserState,
          fuseState, denseState>>

retrVars == <<fuseState, denseState>>

(* --------------------------- RedisClient ------------------------------- *)

\* mutant: the client claims a connection it does not have
is_availableAlways == TRUE

\* RedisClient.is_available
is_available == client # "None"

\* mutant: the "error" key is written even for an empty error text
ProgressDataKeepsEmptyError(status, progress, message, total_questions, error) ==
    [status |-> status, progress |-> progress, message |-> message,
     total_questions |-> total_questions, error |-> error]

\* progress_data built by set_progress: the "error" key exists only for a
\* non-empty error text; json.dumps/json.loads keep keys and values
ProgressData(status, progress, message, total_questions, error) ==
    IF error # ""
    THEN [status |-> status, progress |-> progress, message |-> message,
          total_questions |-> total_questions, error |-> error]
    ELSE [status |-> status, progress |-> progress, message |-> message,
          total_questions |-> total_questions]

NoProgress == [data |-> NoRecord, ttl |-> 0]

\* mutant: SET ... KEEPTTL, a write keeps the lifetime the record had
set_progressKeepTtl(q, data, ok) ==
    IF ~is_available THEN progressKey
    ELSE IF ok /\ progressKey[q] = NoProgress
         THEN [progressKey EXCEPT ![q] = [data |-> data, ttl |-> PROGRESS_TTL]]
    ELSE IF ok THEN [progressKey EXCEPT ![q].data = data]
    ELSE progressKey

\* RedisClient.set_progress: the new value of the progress keys.
\* ok = the store accepted SETEX; otherwise the exception is logged only.
set_progress(q, data, ok) ==
    IF ~is_available THEN progressKey
    ELSE IF ok THEN [progressKey EXCEPT ![q] = [data |-> data, ttl |-> PROGRESS_TTL]]
    ELSE progressKey

\* the write reached the store and was kept
WriteKept(ok) == is_available /\ ok

\* mutant: GET never finds the key
get_progressNeverFound(q, ok) == NoRecord

\* RedisClient.get_progress: the dict returned, NoRecord for None
get_progress(q, ok) ==
    IF ~is_available THEN NoRecord
    ELSE IF ok THEN progressKey[q].data
    ELSE NoRecord

\* RedisClient.delete_progress
delete_progress(q, ok) ==
    IF ~is_available THEN progressKey
    ELSE IF ok THEN [progressKey EXCEPT ![q] = NoProgress]
    ELSE progressKey

\* mutant: SET without NX, the key is taken whoever holds it
LockAcquiredWithoutNX(q) == TRUE

\* lock.acquire(blocking=False): SET quiz:lock:<id> token NX EX timeout
LockAcquired(q) == lockKey[q].token = NoToken

\* mutant: release never deletes the key
LockReleasedNever(q, tok) == lockKey

\* mutant: release deletes the key without comparing tokens
LockReleasedAnyOwner(q, tok) == [lockKey EXCEPT ![q] = FreeLock]

\* lock.release(): LockError when the Lock object has no token; otherwise
\* the key is deleted only if it still carries this Lock's token
LockReleased(q, tok) ==
    IF tok # NoToken /\ lockKey[q].token = tok
    THEN [lockKey EXCEPT ![q] = FreeLock]
    ELSE lockKey

(* ------------------------------- Init ---------------------------------- *)
Init ==
    /\ redisUrl \in BOOLEAN
    /\ instance = FALSE
    /\ client = "None"
    /\ lockKey = [q \in QuizIds |-> FreeLock]
    /\ progressKey = [q \in QuizIds |-> NoProgress]
    /\ clock = 0
    /\ pc = [r \in Reqs |-> "idle"]
    /\ rq = [r \in Reqs |-> "q1"]
    /\ localToken = [r \in Reqs |-> NoToken]
    /\ scheduled = [r \in Reqs |-> FALSE]
    /\ resp = [r \in Reqs |-> "none"]
    /\ exc = [r \in Reqs |-> NoExc]
    /\ stored = [r \in Reqs |-> << >>]
    /\ lastGet = NothingRead
    /\ parserState = NotParsing
    /\ fuseState = NotFusing
    /\ denseState = NotRetrieving

(* ------------------------- request arrival ----------------------------- *)
\* A create request for quiz q arrives and FastAPI resolves its dependency
\* get_redis_client, up to the first suspension of connect().
get_redis_client(r, q) ==
    /\ pc[r] = "idle"
    /\ rq' = [rq EXCEPT ![r] = q]
    /\ IF ~instance
       THEN /\ instance' = TRUE
            /\ IF ~redisUrl
               THEN /\ client' = "None"
                    /\ pc' = [pc EXCEPT ![r] = "endpoint"]
               ELSE /\ client' = "Conn"
                    /\ pc' = [pc EXCEPT ![r] = "ping"]
       ELSE /\ UNCHANGED <<instance, client, lastGet>>
            /\ pc' = [pc EXCEPT ![r] = "endpoint"]
    /\ UNCHANGED <<redisUrl, lockKey, progressKey, clock, localToken,
                   scheduled, resp, exc, stored, lastGet>>
    /\ UNCHANGED <<parserState, retrVars>>

\* RedisClient.connect after `await self._client.ping()`
connect(r, pong) ==
    /\ pc[r] = "ping"
    /\ client' = IF pong THEN client ELSE "None"
    /\ pc' = [pc EXCEPT ![r] = "endpoint"]
    /\ UNCHANGED <<redisUrl, instance, lockKey, progressKey, clock, rq,
                   localToken, scheduled, resp, exc, stored, lastGet>>
    /\ UNCHANGED <<parserState, retrVars>>

(* ------------------------ create_quiz_async ---------------------------- *)
\* what the repository checks of QuizService.validate_quiz_request (quiz
\* exists, user id parses, user is instructor, quiz has a section) can raise
ValidationOutcomes ==
    {"ok", "BadRequest", "ResourceNotFound", "Unauthorized", "AccessDenied"}

\* A prompt, reduced to what _validate_prompt looks at: raw length, length
\* after strip(), number of words left once punctuation is removed, and the
\* number in front of "câu"/"question(s)" if there is one.
Prompt(raw, len, words, hasNumber, asked) ==
    [raw |-> raw, len |-> len, words |-> words, hasNumber |-> hasNumber,
     asked |-> asked]

\* the 1-character prompt "a"
PromptA == Prompt(1, 1, 1, FALSE, 0)

Prompts ==
    {PromptA,
     Prompt(0, 0, 0, FALSE, 0),        \* ""
     Prompt(2001, 2001, 300, FALSE, 0),
     Prompt(12, 12, 1, FALSE, 0),      \* one long word
     Prompt(40, 40, 8, TRUE, 21),
     Prompt(40, 40, 8, TRUE, 5)}

\* QuizService._validate_prompt: every failure is a BadRequestException
validate_prompt(p) ==
    IF p.raw = 0 THEN "BadRequest:prompt"
    ELSE IF p.len < 10 THEN "BadRequest:prompt"
    ELSE IF p.len > 2000 THEN "BadRequest:prompt"
    ELSE IF p.words < 2 THEN "BadRequest:prompt"
    ELSE IF p.hasNumber /\ p.asked > 20 THEN "BadRequest:prompt"
    ELSE IF p.hasNumber /\ p.asked < 1 THEN "BadRequest:prompt"
    ELSE "ok"

\* QuizService.validate_quiz_request: the prompt is validated first, then
\* the repository checks run (checks = what they raise)
validate_quiz_request(p, checks) ==
    IF validate_prompt(p) # "ok" THEN validate_prompt(p) ELSE checks

\* mutant: the endpoint does not look at the connection
create_quiz_asyncNoCheck(r, p, checks) ==
    /\ pc[r] = "endpoint"
    /\ LET outcome == validate_quiz_request(p, checks) IN
       IF outcome # "ok"
       THEN /\ resp' = [resp EXCEPT ![r] = outcome]
            /\ pc' = [pc EXCEPT ![r] = "rejected"]
       ELSE /\ resp' = resp
            /\ pc' = [pc EXCEPT ![r] = "enter_lock"]
    /\ UNCHANGED <<redisUrl, instance, client, lockKey, progressKey, clock,
                   rq, localToken, scheduled, exc, stored, lastGet>>
    /\ UNCHANGED <<parserState, retrVars>>

\* mutant: the lock is taken first and the request validated inside it
create_quiz_asyncLockFirst(r, p, checks) ==
    /\ pc[r] = "endpoint"
    /\ LET outcome == validate_quiz_request(p, checks) IN
       IF ~is_available
       THEN /\ resp' = [resp EXCEPT ![r] = "BadRequest:redis_unavailable"]
            /\ pc' = [pc EXCEPT ![r] = "rejected"]
            /\ lockKey' = lockKey
       ELSE /\ lockKey' = IF LockAcquired(rq[r])
                          THEN [lockKey EXCEPT ![rq[r]] = [token |-> r, ttl |-> LOCK_TTL]]
                          ELSE lockKey
            /\ IF outcome # "ok"
               THEN /\ resp' = [resp EXCEPT ![r] = outcome]
                    /\ pc' = [pc EXCEPT ![r] = "rejected"]
               ELSE /\ resp' = resp
                    /\ pc' = [pc EXCEPT ![r] = "enter_lock"]
    /\ UNCHANGED <<redisUrl, instance, client, progressKey, clock,
                   rq, localToken, scheduled, exc, stored, lastGet>>
    /\ UNCHANGED <<parserState, retrVars>>

\* endpoint lines 111-124: requests are refused while Redis is unavailable,
\* then validated synchronously before any lock is taken
create_quiz_async(r, p, checks) ==
    /\ pc[r] = "endpoint"
    /\ LET outcome == validate_quiz_request(p, checks) IN
       IF ~is_available
       THEN /\ resp' = [resp EXCEPT ![r] = "BadRequest:redis_unavailable"]
            /\ pc' = [pc EXCEPT ![r] = "rejected"]
       ELSE IF outcome # "ok"
       THEN /\ resp' = [resp EXCEPT ![r] = outcome]
            /\ pc' = [pc EXCEPT ![r] = "rejected"]
       ELSE /\ resp' = resp
            /\ pc' = [pc EXCEPT ![r] = "enter_lock"]
    /\ UNCHANGED <<redisUrl, instance, client, lockKey, progressKey, clock,
                   rq, localToken, scheduled, exc, stored, lastGet>>
    /\ UNCHANGED <<parserState, retrVars>>

\* mutant: a blocking acquire, the caller waits while the key is held
EnterLockBlocking(r, q, raised) ==
    IF ~is_available
    THEN /\ pc' = [pc EXCEPT ![r] = "scope_nolock"]
         /\ UNCHANGED <<lockKey, localToken, resp>>
    ELSE /\ LockAcquired(q)
         /\ lockKey' = [lockKey EXCEPT ![q] = [token |-> r, ttl |-> LOCK_TTL]]
         /\ localToken' = [localToken EXCEPT ![r] = r]
         /\ pc' = [pc EXCEPT ![r] = "scope"]
         /\ resp' = resp

\* RedisClient.acquire_quiz_lock for quiz q up to the yield or the LockError.
\* A failed acquire runs the finally block at once: lock.release() raises
\* LockError because the Lock object has no token, and that is swallowed.
\* `raised` is what the caller makes of the LockError.
EnterLock(r, q, raised) ==
    IF ~is_available
    THEN /\ pc' = [pc EXCEPT ![r] = "scope_nolock"]
         /\ UNCHANGED <<lockKey, localToken, resp>>
    ELSE IF LockAcquired(q)
    THEN /\ lockKey' = [lockKey EXCEPT ![q] = [token |-> r, ttl |-> LOCK_TTL]]
         /\ localToken' = [localToken EXCEPT ![r] = r]
         /\ pc' = [pc EXCEPT ![r] = "scope"]
         /\ resp' = resp
    ELSE /\ lockKey' = LockReleased(q, localToken[r])
         /\ localToken' = localToken
         /\ pc' = [pc EXCEPT ![r] = "rejected"]
         /\ resp' = [resp EXCEPT ![r] = raised]

\* endpoint lines 128-130 and 157-163: the endpoint enters the lock scope;
\* a LockError becomes a BadRequestException
acquire_quiz_lock(r) ==
    /\ pc[r] = "enter_lock"
    /\ EnterLock(r, rq[r], "BadRequest:locked")
    /\ UNCHANGED <<redisUrl, instance, client, progressKey, clock, rq,
                   scheduled, exc, stored, lastGet>>
    /\ UNCHANGED <<parserState, retrVars>>

\* endpoint lines 131-155, the body of the `async with`: add_task and
\* return, or an exception / cancellation thrown into the scope
with_body(r, returns) ==
    /\ pc[r] \in {"scope", "scope_nolock"}
    /\ scheduled' = [scheduled EXCEPT ![r] = returns]
    /\ IF pc[r] = "scope"
       THEN /\ pc' = [pc EXCEPT ![r] = "release"]
            /\ resp' = [resp EXCEPT ![r] = IF returns THEN "none" ELSE "raised"]
       ELSE /\ pc' = [pc EXCEPT ![r] = IF returns THEN "task_pending" ELSE "rejected"]
            /\ resp' = [resp EXCEPT ![r] = IF returns THEN "success" ELSE "raised"]
    /\ UNCHANGED <<redisUrl, instance, client, lockKey, progressKey, clock,
                   rq, localToken, exc, stored, lastGet>>
    /\ UNCHANGED <<parserState, retrVars>>

\* the finally block of acquire_quiz_lock after the body: lock.release();
\* the response is sent afterwards and only then the background task runs
release_quiz_lock(r) ==
    /\ pc[r] = "release"
    /\ lockKey' = LockReleased(rq[r], localToken[r])
    /\ localToken' = [localToken EXCEPT ![r] = NoToken]
    /\ pc' = [pc EXCEPT ![r] = IF scheduled[r] THEN "task_pending" ELSE "rejected"]
    /\ resp' = [resp EXCEPT ![r] = IF scheduled[r] THEN "success" ELSE resp[r]]
    /\ UNCHANGED <<redisUrl, instance, client, progressKey, clock, rq,
                   scheduled, exc, stored, lastGet>>
    /\ UNCHANGED <<parserState, retrVars>>

(* ---------------------- generate_quiz_async ---------------------------- *)
\* one set_progress call of the background task: from pc value `at` to `to`
TaskWrite(r, at, to, data, ok) ==
    /\ pc[r] = at
    /\ progressKey' = set_progress(rq[r], data, ok)
    /\ stored' = [stored EXCEPT ![r] =
                     IF WriteKept(ok) THEN Append(@, data.status) ELSE @]
    /\ pc' = [pc EXCEPT ![r] = to]

\* mutant: the first write already says PROCESSING
set_pendingAsProcessing(r, ok) ==
    /\ TaskWrite(r, "task_pending", "task_loading",
                 ProgressData("PROCESSING", 0, <<"init", "">>, 0, ""), ok)
    /\ UNCHANGED <<redisUrl, instance, client, lockKey, clock, rq,
                   localToken, scheduled, resp, exc, lastGet>>
    /\ UNCHANGED <<parserState, retrVars>>

\* task lines 59-65
set_pending(r, ok) ==
    /\ TaskWrite(r, "task_pending", "task_loading",
                 ProgressData("PENDING", 0, <<"init", "">>, 0, ""), ok)
    /\ UNCHANGED <<redisUrl, instance, client, lockKey, clock, rq,
                   localToken, scheduled, resp, exc, lastGet>>
    /\ UNCHANGED <<parserState, retrVars>>

\* task lines 70-76
set_loading(r, ok) ==
    /\ TaskWrite(r, "task_loading", "task_generating",
                 ProgressData("PROCESSING", 20, <<"loading", "">>, 0, ""), ok)
    /\ UNCHANGED <<redisUrl, instance, client, lockKey, clock, rq,
                   localToken, scheduled, resp, exc, lastGet>>
    /\ UNCHANGED <<parserState, retrVars>>

\* task lines 79-85
set_generating(r, ok) ==
    /\ TaskWrite(r, "task_generating", "generate",
                 ProgressData("PROCESSING", 40, <<"generating", "">>, 0, ""), ok)
    /\ UNCHANGED <<redisUrl, instance, client, lockKey, clock, rq,
                   localToken, scheduled, resp, exc, lastGet>>
    /\ UNCHANGED <<parserState, retrVars>>

\* The ways QuizService.generate_quiz ends, by stage.  The prompt and the
\* user id were accepted by the endpoint and are unchanged, so the repeated
\* validation can only fail on what the database says now.  Persistence
\* calls QuizRepository.add_questions_to_quiz, which the repository does not
\* define: the attribute lookup raises AttributeError on every run, so
\* generate_quiz never returns and task lines 95-119 are never reached.
GenerateOutcomes ==
    {[stage |-> "validate", kind |-> k, text |-> "msg"] :
        k \in {"ResourceNotFound", "AccessDenied", "BadRequest"}}
    \cup {[stage |-> "context", kind |-> "Exception", text |-> "msg"]}
    \cup {[stage |-> "llm", kind |-> "Exception", text |-> t] : t \in {"", "msg"}}
    \cup {[stage |-> "parse", kind |-> "ValueError", text |-> t] :
            t \in {"truncated", "failed_to_parse"}}
    \cup {[stage |-> "persist", kind |-> "Exception", text |-> "no_attribute"]}

\* task lines 89-93 and the except clause that catches the exception
generate_quiz(r, e) ==
    /\ pc[r] = "generate"
    /\ exc' = [exc EXCEPT ![r] = e]
    /\ pc' = [pc EXCEPT ![r] = "handler"]
    /\ UNCHANGED <<redisUrl, instance, client, lockKey, progressKey, clock,
                   rq, localToken, scheduled, resp, stored, lastGet>>
    /\ UNCHANGED <<parserState, retrVars>>

\* mutant: the message of the except clause leaves out str(e)
FailedMessageNoText(e) ==
    CASE e.kind = "ValueError" -> <<"data", "">>
      [] OTHER -> <<"unexpected", "">>

\* the message each except clause of generate_quiz_async writes
FailedMessage(e) ==
    CASE e.kind = "Unauthorized" -> <<"auth", "">>
      [] e.kind = "AccessDenied" -> <<"permission", "">>
      [] e.kind = "ResourceNotFound" -> <<"not_found", "">>
      [] e.kind = "BadRequest" -> <<"bad_request", e.text>>
      [] e.kind = "ValueError" -> <<"data", e.text>>
      [] OTHER -> <<"unexpected", e.text>>

\* task lines 121-185: the FAILED write of the except clause
set_failed(r, ok) ==
    /\ TaskWrite(r, "handler", "done",
                 ProgressData("FAILED", 0, FailedMessage(exc[r]), 0, exc[r].text), ok)
    /\ exc' = [exc EXCEPT ![r] = NoExc]
    /\ UNCHANGED <<redisUrl, instance, client, lockKey, clock, rq,
                   localToken, scheduled, resp, lastGet>>
    /\ UNCHANGED <<parserState, retrVars>>

(* ------------------------------ time ----------------------------------- *)
TickSteps == {LOCK_TTL, PROGRESS_TTL}

\* the store drops a key whose lifetime has run out
Expire(key, d, absent) ==
    IF key.ttl <= d THEN absent ELSE [key EXCEPT !.ttl = @ - d]

\* d seconds pass
Tick(d) ==
    /\ clock < MaxTicks
    /\ clock' = clock + 1
    /\ lockKey' = [q \in QuizIds |-> Expire(lockKey[q], d, FreeLock)]
    /\ progressKey' = [q \in QuizIds |-> Expire(progressKey[q], d, NoProgress)]
    /\ UNCHANGED <<redisUrl, instance, client, pc, rq, localToken, scheduled,
                   resp, exc, stored, lastGet>>
    /\ UNCHANGED <<parserState, retrVars>>

Next ==
    \/ \E r \in Reqs, q \in QuizIds : get_redis_client(r, q)
    \/ \E r \in Reqs, pong \in BOOLEAN : connect(r, pong)
    \/ \E r \in Reqs, p \in Prompts, checks \in ValidationOutcomes :
            create_quiz_async(r, p, checks)
    \/ \E r \in Reqs : acquire_quiz_lock(r)
    \/ \E r \in Reqs, returns \in BOOLEAN : with_body(r, returns)
    \/ \E r \in Reqs : release_quiz_lock(r)
    \/ \E r \in Reqs, ok \in BOOLEAN : set_pending(r, ok)
    \/ \E r \in Reqs, ok \in BOOLEAN : set_loading(r, ok)
    \/ \E r \in Reqs, ok \in BOOLEAN : set_generating(r, ok)
    \/ \E r \in Reqs, e \in GenerateOutcomes : generate_quiz(r, e)
    \/ \E r \in Reqs, ok \in BOOLEAN : set_failed(r, ok)
    \/ \E d \in TickSteps : Tick(d)

Spec == Init /\ [][Next]_vars

\* every step a request can take once it has arrived
Step(r) ==
    \/ \E pong \in BOOLEAN : connect(r, pong)
    \/ \E p \in Prompts, checks \in ValidationOutcomes : create_quiz_async(r, p, checks)
    \/ acquire_quiz_lock(r)
    \/ \E returns \in BOOLEAN : with_body(r, returns)
    \/ release_quiz_lock(r)
    \/ \E ok \in BOOLEAN : set_pending(r, ok)
    \/ \E ok \in BOOLEAN : set_loading(r, ok)
    \/ \E ok \in BOOLEAN : set_generating(r, ok)
    \/ \E e \in GenerateOutcomes : generate_quiz(r, e)
    \/ \E ok \in BOOLEAN : set_failed(r, ok)

\* The event loop resumes a coroutine once the call it awaits has answered,
\* and every call of the model answers (with a result or an exception).
LiveSpec == Init /\ [][Next]_vars /\ \A r \in Reqs : WF_vars(Step(r))

(* ------------------- RedisClient used directly ------------------------- *)
\* The operations of RedisClient called one by one, by callers other than
\* the create endpoint, on a client whose connect() has finished.  The store
\* may already hold a record and a lock written by another process.

\* token of a Lock object that belongs to another process
ForeignToken == NumReqs + 1

\* values a caller passes to set_progress
ProgressInputs ==
    {ProgressData("PENDING", 0, <<"init", "">>, 0, ""),
     ProgressData("PROCESSING", 40, <<"generating", "">>, 0, ""),
     ProgressData("COMPLETED", 100, <<"completed", "">>, 2, ""),
     ProgressData("FAILED", 0, <<"unexpected", "msg">>, 0, "msg")}

ClientInit ==
    /\ redisUrl \in BOOLEAN
    /\ instance = TRUE
    /\ client \in {"None", "Conn"}
    /\ client = "Conn" => redisUrl
    /\ lockKey \in [QuizIds -> {FreeLock, [token |-> ForeignToken, ttl |-> LOCK_TTL]}]
    /\ progressKey \in [QuizIds ->
            {NoProgress,
             [data |-> ProgressData("PROCESSING", 40, <<"generating", "">>, 0, ""),
              ttl |-> PROGRESS_TTL]}]
    /\ clock = 0
    /\ pc = [r \in Reqs |-> "idle"]
    /\ rq = [r \in Reqs |-> "q1"]
    /\ localToken = [r \in Reqs |-> NoToken]
    /\ scheduled = [r \in Reqs |-> FALSE]
    /\ resp = [r \in Reqs |-> "none"]
    /\ exc = [r \in Reqs |-> NoExc]
    /\ stored = [r \in Reqs |-> << >>]
    /\ lastGet = NothingRead
    /\ parserState = NotParsing
    /\ fuseState = NotFusing
    /\ denseState = NotRetrieving

\* a caller enters `async with acquire_quiz_lock(q)`
client_acquire(r, q) ==
    /\ pc[r] = "idle"
    /\ rq' = [rq EXCEPT ![r] = q]
    /\ EnterLock(r, q, "LockError")
    /\ UNCHANGED <<redisUrl, instance, client, progressKey, clock,
                   scheduled, exc, stored, lastGet>>
    /\ UNCHANGED <<parserState, retrVars>>

\* the caller's block ends, by return or by exception: the code after the
\* yield runs (nothing without a connection, lock.release() otherwise)
client_leave(r) ==
    /\ pc[r] \in {"scope", "scope_nolock"}
    /\ lockKey' = IF pc[r] = "scope" THEN LockReleased(rq[r], localToken[r]) ELSE lockKey
    /\ localToken' = [localToken EXCEPT ![r] = NoToken]
    /\ pc' = [pc EXCEPT ![r] = "left"]
    /\ UNCHANGED <<redisUrl, instance, client, progressKey, clock, rq,
                   scheduled, resp, exc, stored, lastGet>>
    /\ UNCHANGED <<parserState, retrVars>>

client_set_progress(q, data, ok) ==
    /\ progressKey' = set_progress(q, data, ok)
    /\ UNCHANGED <<redisUrl, instance, client, lockKey, clock, pc, rq,
                   localToken, scheduled, resp, exc, stored, lastGet>>
    /\ UNCHANGED <<parserState, retrVars>>

client_get_progress(q, ok) ==
    /\ lastGet' = [quiz |-> q, data |-> get_progress(q, ok)]
    /\ UNCHANGED <<redisUrl, instance, client, lockKey, progressKey, clock,
                   pc, rq, localToken, scheduled, resp, exc, stored>>
    /\ UNCHANGED <<parserState, retrVars>>

client_delete_progress(q, ok) ==
    /\ progressKey' = delete_progress(q, ok)
    /\ UNCHANGED <<redisUrl, instance, client, lockKey, clock, pc, rq,
                   localToken, scheduled, resp, exc, stored, lastGet>>
    /\ UNCHANGED <<parserState, retrVars>>

ClientNext ==
    \/ \E r \in Reqs, q \in QuizIds : client_acquire(r, q)
    \/ \E r \in Reqs : client_leave(r)
    \/ \E q \in QuizIds, data \in ProgressInputs, ok \in BOOLEAN :
            client_set_progress(q, data, ok)
    \/ \E q \in QuizIds, ok \in BOOLEAN : client_get_progress(q, ok)
    \/ \E q \in QuizIds, ok \in BOOLEAN : client_delete_progress(q, ok)
    \/ \E d \in TickSteps : Tick(d)

ClientSpec == ClientInit /\ [][ClientNext]_vars

(* ---------------------- ParserUtils.parse_with_fallback ---------------- *)
\* The raw LLM output is a sequence of pieces, whitespace between pieces is
\* not represented (strip() and the \s* of the patterns skip it):
\*   "w"        a word of prose without braces, brackets, quotes or fences
\*   "{" "}" "[" "]" "," ":"   the character itself, outside any JSON text
\*   "FENCE"    a code fence (three backticks); "json" / "py" the language
\*              tag glued to it
\*   "DOC"      a JSON object that validates against QuizOutputInternal
\*   "DOCB"     the same, with a "{" inside one of its question texts
\*   "OBJ"      a JSON object that does not validate against the schema
\*   "CUT"      the fragment  "question_text": "abc   (string never closed)
MaxProse == 2

ProseTokens == {"w", "{", "}", "[", "]"}
JsonTokens == {"DOC", "DOCB", "OBJ"}
ValidDocs == {"DOC", "DOCB"}

\* sequences over S of length at most n
SeqsUpTo(S, n) == UNION {[1..k -> S] : k \in 0..n}

\* the raw outputs parse_with_fallback is run on
Contents ==
    {p \o open \o core \o close \o tail :
        p \in SeqsUpTo(ProseTokens, MaxProse),
        open \in {<< >>, <<"FENCE">>, <<"FENCE", "json">>, <<"FENCE", "py">>},
        core \in {<< >>, <<"DOC">>, <<"DOCB">>, <<"OBJ">>, <<"CUT">>, <<"w">>},
        close \in {<< >>, <<"FENCE">>},
        tail \in {<< >>, <<",">>, <<":">>, <<"w">>, <<"}">>}}

\* str.count(ch) of one piece
CharCount(tok, ch) ==
    CASE tok = ch -> 1
      [] tok = "DOC" -> IF ch \in {"{", "}"} THEN 3
                        ELSE IF ch \in {"[", "]"} THEN 2 ELSE 0
      [] tok = "DOCB" -> IF ch = "{" THEN 4
                         ELSE IF ch = "}" THEN 3
                         ELSE IF ch \in {"[", "]"} THEN 2 ELSE 0
      [] tok = "OBJ" -> IF ch \in {"{", "}"} THEN 1 ELSE 0
      [] OTHER -> 0

RECURSIVE count(_, _)
\* content.count(ch)
count(content, ch) ==
    IF content = << >> THEN 0
    ELSE CharCount(Head(content), ch) + count(Tail(content), ch)

\* lines 78-83: the counts of braces or of brackets differ
Unbalanced(content) ==
    \/ count(content, "{") # count(content, "}")
    \/ count(content, "[") # count(content, "]")

\* lines 90-101: a string of a known key is still open at the end of the
\* text, or the text ends with a comma or a colon
TruncationPattern(content) ==
    \/ \E i \in 1..Len(content) :
            /\ content[i] = "CUT"
            /\ \A j \in (i + 1)..Len(content) : content[j] \notin (JsonTokens \cup {"CUT"})
    \/ Len(content) > 0 /\ content[Len(content)] \in {",", ":"}

\* mutant: only the patterns are looked at, not the counts
is_truncatedPatternsOnly(content) == TruncationPattern(content)

\* ParserUtils._is_truncated
is_truncated(content) == Unbalanced(content) \/ TruncationPattern(content)

Failure(err) == [ok |-> FALSE, doc |-> "none", err |-> err]
Success(doc) == [ok |-> TRUE, doc |-> doc, err |-> "none"]

\* json.loads followed by model_cls.model_validate
LoadAndValidate(text) ==
    IF Len(text) = 1 /\ text[1] \in ValidDocs THEN Success(text[1])
    ELSE IF Len(text) = 1 /\ text[1] = "OBJ" THEN Failure("ValidationError")
    ELSE Failure("JSONDecodeError")

\* re.search(r"\{[\s\S]*}", content): from the first "{" to the last "}"
HasJsonSpan(content) ==
    \E i, j \in 1..Len(content) :
        /\ content[i] \in (JsonTokens \cup {"{"})
        /\ content[j] \in (JsonTokens \cup {"}"})
        /\ i < j \/ (i = j /\ content[i] \in JsonTokens)

JsonSpan(content) ==
    LET i == CHOOSE x \in 1..Len(content) :
                /\ content[x] \in (JsonTokens \cup {"{"})
                /\ \A y \in 1..(x - 1) : content[y] \notin (JsonTokens \cup {"{"})
        j == CHOOSE x \in 1..Len(content) :
                /\ content[x] \in (JsonTokens \cup {"}"})
                /\ \A y \in (x + 1)..Len(content) : content[y] \notin (JsonTokens \cup {"}"})
    IN SubSeq(content, i, j)

\* parser.parse of langchain's PydanticOutputParser.  lenient = the installed
\* version cuts the outermost {...} out of the text before decoding it;
\* otherwise the text has to be the document.
parse(text, lenient) ==
    IF lenient /\ HasJsonSpan(text)
    THEN IF LoadAndValidate(JsonSpan(text)).ok
         THEN LoadAndValidate(JsonSpan(text))
         ELSE Failure("OutputParserException")
    ELSE IF LoadAndValidate(text).ok THEN LoadAndValidate(text)
    ELSE Failure("OutputParserException")

\* positions of the fences of the text
Fences(content) == {i \in 1..Len(content) : content[i] = "FENCE"}

\* re.search(fence (?:json)?\s*([\s\S]*?)\s* fence, content) finds a match when
\* the text has two fences ...
HasFencedBlock(content) == Cardinality(Fences(content)) >= 2

\* ... and group(1) is what stands between the first fence, with its "json"
\* tag if it has one, and the next fence
FencedBlock(content) ==
    LET i == CHOOSE x \in Fences(content) : \A y \in Fences(content) : x <= y
        j == CHOOSE x \in Fences(content) \ {i} :
                \A y \in Fences(content) \ {i} : x <= y
        from == IF i + 1 < j /\ content[i + 1] = "json" THEN i + 2 ELSE i + 1
    IN SubSeq(content, from, j - 1)

\* lines 52-55: a leading fence with any tag and a trailing fence are removed
Cleaned(content) ==
    IF Len(content) > 0 /\ content[1] = "FENCE"
    THEN LET n == IF Len(content) > 1 /\ content[2] \in {"json", "py"} THEN 2 ELSE 1
             rest == SubSeq(content, n + 1, Len(content))
         IN IF Len(rest) > 0 /\ rest[Len(rest)] = "FENCE"
            THEN SubSeq(rest, 1, Len(rest) - 1)
            ELSE rest
    ELSE content

\* the outcome of each strategy on its own; a strategy whose pattern does
\* not match raises nothing and returns nothing
Strategy(k, content, lenient) ==
    CASE k = 1 -> parse(content, lenient)
      [] k = 2 -> IF HasFencedBlock(content)
                  THEN parse(FencedBlock(content), lenient)
                  ELSE Failure("no_match")
      [] k = 3 -> IF HasJsonSpan(content)
                  THEN LoadAndValidate(JsonSpan(content))
                  ELSE Failure("no_match")
      [] k = 4 -> LoadAndValidate(Cleaned(content))

\* lines 20-22
TruncatedError ==
    [stage |-> "parse", kind |-> "ValueError", text |-> "truncated", detail |-> << >>]

\* line 62: the message is "Failed to parse LLM output: " and str(e)
ParseFailure(e) ==
    [stage |-> "parse", kind |-> "ValueError", text |-> "failed_to_parse",
     detail |-> <<[part |-> "error", value |-> e]>>]

NoResult == [kind |-> "none"]

ParserInit ==
    /\ redisUrl = FALSE
    /\ instance = FALSE
    /\ client = "None"
    /\ lockKey = [q \in QuizIds |-> FreeLock]
    /\ progressKey = [q \in QuizIds |-> NoProgress]
    /\ clock = 0
    /\ pc = [r \in Reqs |-> "idle"]
    /\ rq = [r \in Reqs |-> "q1"]
    /\ localToken = [r \in Reqs |-> NoToken]
    /\ scheduled = [r \in Reqs |-> FALSE]
    /\ resp = [r \in Reqs |-> "none"]
    /\ exc = [r \in Reqs |-> NoExc]
    /\ stored = [r \in Reqs |-> << >>]
    /\ lastGet = NothingRead
    /\ fuseState = NotFusing
    /\ denseState = NotRetrieving
    /\ parserState \in
        {[pc |-> "check", content |-> c, lenient |-> l, tried |-> << >>,
          result |-> NoResult] : c \in Contents, l \in BOOLEAN}

coordVars == <<redisUrl, instance, client, lockKey, progressKey, clock, pc, rq,
               localToken, scheduled, resp, exc, stored, lastGet>>

\* lines 17-22
check_truncated ==
    /\ parserState.pc = "check"
    /\ parserState' =
        IF is_truncated(parserState.content)
        THEN [parserState EXCEPT !.pc = "raised", !.result = TruncatedError]
        ELSE [parserState EXCEPT !.pc = "try1"]
    /\ UNCHANGED <<coordVars, retrVars>>

\* strategy k is run: return on success, otherwise go on to `next`
TryStrategy(k, next) ==
    LET out == Strategy(k, parserState.content, parserState.lenient) IN
    parserState' =
        IF out.ok
        THEN [parserState EXCEPT !.pc = "returned",
                                 !.tried = Append(@, k),
                                 !.result = [kind |-> "ok", doc |-> out.doc]]
        ELSE [parserState EXCEPT !.pc = next, !.tried = Append(@, k)]

\* mutant: the result of a successful direct parse is not returned
strategy_1KeepsGoing ==
    /\ parserState.pc = "try1"
    /\ parserState' = [parserState EXCEPT !.pc = "try2", !.tried = Append(@, 1)]
    /\ UNCHANGED <<coordVars, retrVars>>

\* lines 24-28
strategy_1 ==
    /\ parserState.pc = "try1"
    /\ TryStrategy(1, "try2")
    /\ UNCHANGED <<coordVars, retrVars>>

\* lines 30-37
strategy_2 ==
    /\ parserState.pc = "try2"
    /\ TryStrategy(2, "try3")
    /\ UNCHANGED <<coordVars, retrVars>>

\* lines 39-47
strategy_3 ==
    /\ parserState.pc = "try3"
    /\ TryStrategy(3, "try4")
    /\ UNCHANGED <<coordVars, retrVars>>

\* lines 49-62
strategy_4 ==
    /\ parserState.pc = "try4"
    /\ LET out == Strategy(4, parserState.content, parserState.lenient) IN
       parserState' =
        IF out.ok
        THEN [parserState EXCEPT !.pc = "returned",
                                 !.tried = Append(@, 4),
                                 !.result = [kind |-> "ok", doc |-> out.doc]]
        ELSE [parserState EXCEPT !.pc = "raised",
                                 !.tried = Append(@, 4),
                                 !.result = ParseFailure(out.err)]
    /\ UNCHANGED <<coordVars, retrVars>>

ParserNext ==
    \/ check_truncated
    \/ strategy_1
    \/ strategy_2
    \/ strategy_3
    \/ strategy_4

ParserSpec == ParserInit /\ [][ParserNext]_vars

(* --------------------------- RRFFusion.fuse ---------------------------- *)
\* One call of RRFFusion.fuse(query, top_k) over a retriever pair built on n
\* passages.  Passage ids are list positions, 0-based as in the code; a
\* ranked list is a sequence of ids whose rank is its position minus one.

NumPassages == 3
MaxTopK == 3

\* values get_scores can give a passage (only their order matters)
ScoreLevels == {0, 1, 2}
\* RRFFusion.rrf_k: the default 60 and a small value under which two sums
\* of reciprocals coincide (1/4 + 1/4 = 1/2)
RrfKs == {1, 60}

PassageIds(n) == 0 .. (n - 1)

\* Scores are kept as exact fractions.  The code adds IEEE doubles; for the
\* denominators that occur here two sums are equal as doubles exactly when
\* they are equal as fractions.
Frac(n, d) == [num |-> n, den |-> d]
AddFrac(a, b) == Frac(a.num * b.den + b.num * a.den, a.den * b.den)
LessFrac(a, b) == a.num * b.den < b.num * a.den
EqFrac(a, b) == a.num * b.den = b.num * a.den

\* 1 / (self.rrf_k + rank + 1)
Contribution(rrf_k, rank) == Frac(1, rrf_k + rank + 1)

\* the dict `scores` as its items in insertion order
HasKey(scores, idx) == \E i \in 1..Len(scores) : scores[i].idx = idx

\* mutant: a second contribution replaces the first
AccumulateOverwrite(scores, idx, c) ==
    IF HasKey(scores, idx)
    THEN [i \in 1..Len(scores) |->
            IF scores[i].idx = idx THEN [idx |-> idx, score |-> c]
            ELSE scores[i]]
    ELSE Append(scores, [idx |-> idx, score |-> c])

\* scores[idx] = scores.get(idx, 0) + c
Accumulate(scores, idx, c) ==
    IF HasKey(scores, idx)
    THEN [i \in 1..Len(scores) |->
            IF scores[i].idx = idx
            THEN [idx |-> idx, score |-> AddFrac(scores[i].score, c)]
            ELSE scores[i]]
    ELSE Append(scores, [idx |-> idx, score |-> c])

\* for rank, (idx, _, _) in enumerate(results): ...
RECURSIVE AddList(_, _, _, _)
AddList(scores, results, rrf_k, rank) ==
    IF rank >= Len(results) THEN scores
    ELSE AddList(Accumulate(scores, results[rank + 1],
                            Contribution(rrf_k, rank)),
                 results, rrf_k, rank + 1)

\* lines 11-16: the lexical list first, then the dense list
FusedScores(bm25_results, dense_results, rrf_k) ==
    AddList(AddList(<< >>, bm25_results, rrf_k, 0), dense_results, rrf_k, 0)

\* mutant: ascending instead of descending
InsertAsc(sorted, item) ==
    LET after == {i \in 1..Len(sorted) :
                    ~ LessFrac(item.score, sorted[i].score)}
        k == IF after = {} THEN 0 ELSE CHOOSE i \in after : \A j \in after : j <= i
    IN SubSeq(sorted, 1, k) \o <<item>> \o SubSeq(sorted, k + 1, Len(sorted))

\* stable insertion for sorted(..., reverse=True): the item goes behind
\* every element whose score is not smaller than its own
InsertDesc(sorted, item) ==
    LET after == {i \in 1..Len(sorted) :
                    ~ LessFrac(sorted[i].score, item.score)}
        k == IF after = {} THEN 0 ELSE CHOOSE i \in after : \A j \in after : j <= i
    IN SubSeq(sorted, 1, k) \o <<item>> \o SubSeq(sorted, k + 1, Len(sorted))

\* sorted(scores.items(), key=lambda x: x[1], reverse=True)
RECURSIVE sorted_reverse(_)
sorted_reverse(items) ==
    IF items = << >> THEN << >>
    ELSE InsertDesc(sorted_reverse(SubSeq(items, 1, Len(items) - 1)),
                    items[Len(items)])

\* s[:k]
Slice(s, k) == SubSeq(s, 1, IF k < Len(s) THEN k ELSE Len(s))

\* lines 18-19: the ids of the top_k best items
Reranked(scores, top_k) ==
    LET best == Slice(sorted_reverse(scores), top_k)
    IN [i \in 1..Len(best) |-> best[i].idx]

Perms(n) ==
    {p \in [1..n -> PassageIds(n)] : \A i, j \in 1..n : i # j => p[i] # p[j]}

\* scores.argsort(): ascending; numpy's default kind is not a stable sort,
\* so the order of equal scores is any
argsort(scores, n) ==
    {p \in Perms(n) : \A i \in 1..(n - 1) : scores[p[i]] <= scores[p[i + 1]]}

\* mutant: the ascending order is not reversed
ReversedNot(p) == p

\* p[::-1]
Reversed(p) == [i \in 1..Len(p) |-> p[Len(p) + 1 - i]]

\* ranked lists DenseRetriever.search can return for n passages: distinct
\* valid ids, at most min(top_k, n) of them
DenseResults(n, top_k) ==
    {d \in SeqsUpTo(PassageIds(n), IF top_k < n THEN top_k ELSE n) :
        /\ Len(d) >= 1
        /\ \A i, j \in 1..Len(d) : i # j => d[i] # d[j]}

FuseInit ==
    /\ redisUrl = FALSE
    /\ instance = FALSE
    /\ client = "None"
    /\ lockKey = [q \in QuizIds |-> FreeLock]
    /\ progressKey = [q \in QuizIds |-> NoProgress]
    /\ clock = 0
    /\ pc = [r \in Reqs |-> "idle"]
    /\ rq = [r \in Reqs |-> "q1"]
    /\ localToken = [r \in Reqs |-> NoToken]
    /\ scheduled = [r \in Reqs |-> FALSE]
    /\ resp = [r \in Reqs |-> "none"]
    /\ exc = [r \in Reqs |-> NoExc]
    /\ stored = [r \in Reqs |-> << >>]
    /\ lastGet = NothingRead
    /\ parserState = NotParsing
    /\ denseState = NotRetrieving
    /\ \E n \in 1..NumPassages :
         fuseState \in
            [pc : {"bm25_search"},
             n : {n},
             bm25_scores : [PassageIds(n) -> ScoreLevels],
             top_k : 1..MaxTopK,
             rrf_k : RrfKs,
             bm25_results : {<< >>},
             dense_results : {<< >>},
             scores : {<< >>},
             result : {<< >>}]

\* BM25Retriever.search, called at fusion.py line 8
bm25_search ==
    /\ fuseState.pc = "bm25_search"
    /\ \E sorted \in argsort(fuseState.bm25_scores, fuseState.n) :
         fuseState' = [fuseState EXCEPT
                         !.pc = "dense_search",
                         !.bm25_results = Slice(Reversed(sorted), fuseState.top_k)]
    /\ UNCHANGED <<coordVars, parserState, denseState>>

\* DenseRetriever.search, called at fusion.py line 9
dense_search ==
    /\ fuseState.pc = "dense_search"
    /\ \E d \in DenseResults(fuseState.n, fuseState.top_k) :
         fuseState' = [fuseState EXCEPT !.pc = "fuse", !.dense_results = d]
    /\ UNCHANGED <<coordVars, parserState, denseState>>

\* fusion.py lines 11-19
fuse ==
    /\ fuseState.pc = "fuse"
    /\ LET scores == FusedScores(fuseState.bm25_results,
                                 fuseState.dense_results, fuseState.rrf_k)
       IN fuseState' = [fuseState EXCEPT
                          !.pc = "returned",
                          !.scores = scores,
                          !.result = Reranked(scores, fuseState.top_k)]
    /\ UNCHANGED <<coordVars, parserState, denseState>>

FuseNext ==
    \/ bm25_search
    \/ dense_search
    \/ fuse

FuseSpec == FuseInit /\ [][FuseNext]_vars

(* ------------------- DenseRetriever and its index files ---------------- *)
\* Jobs of QuizService.generate_quiz (mcq_generator.py) that each build a
\* RetrieverPipeline on their own passages; the DenseRetrievers all use the
\* default index_path and embed_path, so the two files are shared.

NumRetrievers == 3

Retrievers == 1..NumRetrievers
\* passage sets of the documents: an empty source and two different ones
PassageSets == {"empty", "A", "B"}
\* len(self.texts)
Size(set) == CASE set = "empty" -> 0 [] set = "A" -> 1 [] set = "B" -> 2

\* what a file or an in-memory array holds: the passage set it was computed
\* from and the retriever whose build computed it
NoContent == [set |-> "none", by |-> 0]
Built(set, r) == [set |-> set, by |-> r]
NoCandidates == [index |-> NoContent, ids |-> {}, returned |-> FALSE]

NewRetriever(set) ==
    [pc |-> "new", set |-> set, embeddings |-> NoContent, index |-> NoContent,
     error |-> "none", result |-> NoCandidates, llm |-> FALSE]

DenseInit ==
    /\ redisUrl = FALSE
    /\ instance = FALSE
    /\ client = "None"
    /\ lockKey = [q \in QuizIds |-> FreeLock]
    /\ progressKey = [q \in QuizIds |-> NoProgress]
    /\ clock = 0
    /\ pc = [r \in Reqs |-> "idle"]
    /\ rq = [r \in Reqs |-> "q1"]
    /\ localToken = [r \in Reqs |-> NoToken]
    /\ scheduled = [r \in Reqs |-> FALSE]
    /\ resp = [r \in Reqs |-> "none"]
    /\ exc = [r \in Reqs |-> NoExc]
    /\ stored = [r \in Reqs |-> << >>]
    /\ lastGet = NothingRead
    /\ parserState = NotParsing
    /\ fuseState = NotFusing
    /\ \E sets \in [Retrievers -> PassageSets] :
         denseState = [embed_path |-> NoContent,
                       index_path |-> NoContent,
                       ret |-> [r \in Retrievers |-> NewRetriever(sets[r])]]

Ret(r) == denseState.ret[r]
Raised(r, stage) ==
    [denseState EXCEPT !.ret[r].pc = "raised", !.ret[r].error = stage]
denseOther == <<coordVars, parserState, fuseState>>

\* RetrieverPipeline(passages), mcq_generator.py lines 62-67: BM25Okapi
\* divides by the corpus size
RetrieverPipeline_init(r) ==
    /\ Ret(r).pc = "new"
    /\ denseState' =
         IF Size(Ret(r).set) = 0 THEN Raised(r, "init")
         ELSE [denseState EXCEPT !.ret[r].pc = "build_index"]
    /\ UNCHANGED denseOther

\* build_index line 34, reached from search line 52 with self.index None
build_index(r) ==
    /\ Ret(r).pc = "build_index"
    /\ denseState' =
         [denseState EXCEPT !.ret[r].pc =
            IF denseState.index_path # NoContent /\ denseState.embed_path # NoContent
            THEN "np_load" ELSE "embed_passages"]
    /\ UNCHANGED denseOther

\* line 36
np_load(r) ==
    /\ Ret(r).pc = "np_load"
    /\ denseState' = [denseState EXCEPT !.ret[r].pc = "read_index",
                                        !.ret[r].embeddings = denseState.embed_path]
    /\ UNCHANGED denseOther

\* line 38
read_index(r) ==
    /\ Ret(r).pc = "read_index"
    /\ denseState' = [denseState EXCEPT !.ret[r].pc = "search",
                                        !.ret[r].index = denseState.index_path]
    /\ UNCHANGED denseOther

\* mutant: a failed embedding call leaves the retriever without dense
\* results and the job goes on
embed_passagesSwallowed(r, ok) ==
    /\ Ret(r).pc = "embed_passages"
    /\ denseState' =
         IF ok THEN [denseState EXCEPT !.ret[r].pc = "np_save",
                                       !.ret[r].embeddings = Built(Ret(r).set, r)]
         ELSE [denseState EXCEPT !.ret[r].pc = "retrieved",
                                 !.ret[r].error = "build",
                                 !.ret[r].result = [NoCandidates EXCEPT !.returned = TRUE]]
    /\ UNCHANGED denseOther

\* lines 41-44: one embedding call per passage; any of them failing leaves
\* build_index with the exception
embed_passages(r, ok) ==
    /\ Ret(r).pc = "embed_passages"
    /\ denseState' =
         IF ok THEN [denseState EXCEPT !.ret[r].pc = "np_save",
                                       !.ret[r].embeddings = Built(Ret(r).set, r)]
         ELSE Raised(r, "build")
    /\ UNCHANGED denseOther

\* line 45
np_save(r) ==
    /\ Ret(r).pc = "np_save"
    /\ denseState' = [denseState EXCEPT !.ret[r].pc = "write_index",
                                        !.embed_path = Ret(r).embeddings]
    /\ UNCHANGED denseOther

\* lines 46-49
write_index(r) ==
    /\ Ret(r).pc = "write_index"
    /\ denseState' = [denseState EXCEPT !.ret[r].pc = "search",
                                        !.ret[r].index = Ret(r).embeddings,
                                        !.index_path = Ret(r).embeddings]
    /\ UNCHANGED denseOther

\* lines 54-60: the query is embedded, the index in memory is searched and
\* ids outside the own passage list are dropped
search(r, ok) ==
    /\ Ret(r).pc = "search"
    /\ denseState' =
         IF ok
         THEN [denseState EXCEPT
                 !.ret[r].pc = "retrieved",
                 !.ret[r].result =
                    [index |-> Ret(r).index,
                     ids |-> {i \in 0..(Size(Ret(r).index.set) - 1) :
                                0 <= i /\ i < Size(Ret(r).set)},
                     returned |-> TRUE]]
         ELSE Raised(r, "query")
    /\ UNCHANGED denseOther

\* mcq_generator.py lines 163-168: the generation-model call
generate(r) ==
    /\ Ret(r).pc = "retrieved"
    /\ denseState' = [denseState EXCEPT !.ret[r].pc = "generated",
                                        !.ret[r].llm = TRUE]
    /\ UNCHANGED denseOther

DenseNext ==
    \/ \E r \in Retrievers : RetrieverPipeline_init(r)
    \/ \E r \in Retrievers : build_index(r)
    \/ \E r \in Retrievers : np_load(r)
    \/ \E r \in Retrievers : read_index(r)
    \/ \E r \in Retrievers, ok \in BOOLEAN : embed_passages(r, ok)
    \/ \E r \in Retrievers : np_save(r)
    \/ \E r \in Retrievers : write_index(r)
    \/ \E r \in Retrievers, ok \in BOOLEAN : search(r, ok)
    \/ \E r \in Retrievers : generate(r)

DenseSpec == DenseInit /\ [][DenseNext]_vars

(* ============================= claims ================================== *)
\* positions of a request inside the guarded scope of a real lock
InScope(r) == pc[r] \in {"scope", "release"}
\* positions of the background task between its first progress write and
\* its terminal write
InProgress(r) == pc[r] \in {"task_loading", "task_generating", "generate", "handler"}
\* positions of the background task before it has issued its terminal write
TaskRunning(r) == pc[r] = "task_pending" \/ InProgress(r)
Status(q) == progressKey[q].data.status

\* C1 (as claimed): with the store connected and no lock lifetime elapsed,
\* two generation executions for the same quiz id are never in progress at
\* the same time.
C1_OneExecutionPerQuiz ==
    \A r1 \in Reqs, r2 \in Reqs :
        (client = "Conn" /\ clock = 0 /\ r1 # r2 /\ InProgress(r1) /\ InProgress(r2))
            => rq[r1] # rq[r2]

\* C2: with the store connected, an acquire made while the key is held raises
\* LockError in that same step and leaves the key alone, an acquire made while
\* the key is free enters the scope as its holder; and as long as no lock
\* lifetime has elapsed two requests are never both inside the guarded scope
\* of the same quiz id.
C2_MutualExclusion ==
    /\ [](\A r1 \in Reqs, r2 \in Reqs :
            (clock = 0 /\ r1 # r2 /\ InScope(r1) /\ InScope(r2)) => rq[r1] # rq[r2])
    /\ [][\A r \in Reqs :
            (pc[r] = "enter_lock" /\ pc'[r] # "enter_lock" /\ is_available) =>
                IF lockKey[rq[r]].token = NoToken
                THEN pc'[r] = "scope" /\ lockKey'[rq[r]].token = r
                ELSE /\ pc'[r] = "rejected"
                     /\ resp'[r] = "BadRequest:locked"
                     /\ lockKey' = lockKey]_vars

\* C2 witness: one request is inside the scope and another one for the same
\* quiz id got the LockError
C2_Witness ==
    \E r1 \in Reqs, r2 \in Reqs :
        /\ r1 # r2 /\ rq[r1] = rq[r2]
        /\ InScope(r1) /\ lockKey[rq[r1]].token = r1
        /\ pc[r2] = "rejected" /\ resp[r2] = "BadRequest:locked"

\* C3 (as claimed): an admitted request that no longer holds its lock has
\* written its terminal status, i.e. the release follows the terminal write.
C3_ReleaseAfterTerminal ==
    \A r \in Reqs :
        (client = "Conn" /\ scheduled[r] /\ localToken[r] = NoToken) => pc[r] = "done"

\* C4: the lock key of a quiz id is only ever held by a request that is inside
\* its guarded scope: a request that left the scope by return or by exception,
\* and a task that failed at any stage, holds no lock, so the next acquire
\* finds the key free.
C4_NoFailureLeavesLock ==
    \A q \in QuizIds :
        lockKey[q].token # NoToken =>
            /\ InScope(lockKey[q].token)
            /\ rq[lockKey[q].token] = q
            /\ localToken[lockKey[q].token] = lockKey[q].token

\* C4 witness: a task has failed and returned, and another request for the
\* same quiz id has acquired the lock
C4_Witness ==
    \E r1 \in Reqs, r2 \in Reqs :
        /\ r1 # r2 /\ rq[r1] = rq[r2]
        /\ pc[r1] = "done"
        /\ pc[r2] = "scope" /\ lockKey[rq[r2]].token = r2

\* the statuses generate_quiz_async passes to set_progress, in program order
IssuedOrder == <<"PENDING", "PROCESSING", "PROCESSING", "FAILED">>
\* how many of them a request at position p has issued
IssuedCount(p) ==
    CASE p = "task_loading" -> 1
      [] p = "task_generating" -> 2
      [] p \in {"generate", "handler"} -> 3
      [] p = "done" -> 4
      [] OTHER -> 0

RECURSIVE IsSubseq(_, _)
\* s is t with some elements left out
IsSubseq(s, t) ==
    IF s = << >> THEN TRUE
    ELSE IF t = << >> THEN FALSE
    ELSE IF Head(s) = Head(t) THEN IsSubseq(Tail(s), Tail(t))
    ELSE IsSubseq(s, Tail(t))

\* PENDING first, then PROCESSING only, then one terminal status
FollowsStateMachine(s) ==
    /\ Len(s) >= 3
    /\ s[1] = "PENDING"
    /\ \A i \in 2..(Len(s) - 1) : s[i] = "PROCESSING"
    /\ s[Len(s)] \in TerminalStatus

\* C5 (as claimed): the statuses one execution stored start with PENDING,
\* and once it has returned they are PENDING, PROCESSING.., one terminal.
C5_StoredSequence ==
    \A r \in Reqs :
        client = "Conn" =>
            /\ (stored[r] # << >> => stored[r][1] = "PENDING")
            /\ (pc[r] = "done" => FollowsStateMachine(stored[r]))

\* C5 (amended): the statuses one execution has stored are, in order, some of
\* the statuses it has issued so far (PENDING, PROCESSING, PROCESSING, FAILED);
\* a write the store did not keep is simply missing.
C5_IssuedSequence ==
    \A r \in Reqs :
        IsSubseq(stored[r], SubSeq(IssuedOrder, 1, IssuedCount(pc[r])))

\* C5 witness: an execution has returned and all four writes were kept
C5_Witness ==
    \E r \in Reqs :
        pc[r] = "done" /\ stored[r] = IssuedOrder /\ Status(rq[r]) = "FAILED"

\* every write issued so far by every request was kept by the store
AllKept == \A r \in Reqs : Len(stored[r]) = IssuedCount(pc[r])

\* C6 (as claimed): with the store connected and keeping every write, a step
\* other than the passing of time changes a terminal status only to PENDING.
C6_TerminalOnlyToPending ==
    [][(client = "Conn" /\ clock' = clock /\ AllKept /\ AllKept') =>
        \A q \in QuizIds :
            (Status(q) \in TerminalStatus /\ Status(q)' # Status(q))
                => Status(q)' = "PENDING"]_vars

\* the message label each exception class is reported with
ExpectedLabel(kind) ==
    CASE kind = "AccessDenied" -> "permission"
      [] kind = "ResourceNotFound" -> "not_found"
      [] kind = "BadRequest" -> "bad_request"
      [] kind = "ValueError" -> "data"
      [] kind = "Exception" -> "unexpected"

\* C7 (as claimed): when the except clause has run, the record of the quiz id
\* is FAILED and carries a message and the text of the exception.
C7_FailedRecord ==
    [][\A r \in Reqs :
        (client = "Conn" /\ pc[r] = "handler" /\ pc'[r] = "done") =>
            LET d == progressKey'[rq[r]].data IN
            /\ d.status = "FAILED"
            /\ d.message[1] = ExpectedLabel(exc[r].kind)
            /\ "error" \in DOMAIN d
            /\ d.error = exc[r].text]_vars

\* C7 (amended): the except clause issues one FAILED write and returns.  If
\* the store keeps the write, the record is FAILED with progress 0, the
\* message of the exception class, a fresh lifetime, and the error text when
\* that text is not empty (no error key otherwise); if not, nothing changes.
C7_FailedWriteAttempt ==
    [][\A r \in Reqs :
        (pc[r] = "handler" /\ pc'[r] # "handler") =>
            /\ pc'[r] = "done"
            /\ \/ stored'[r] = stored[r] /\ progressKey' = progressKey
               \/ /\ is_available
                  /\ stored'[r] = Append(stored[r], "FAILED")
                  /\ \A q \in QuizIds \ {rq[r]} : progressKey'[q] = progressKey[q]
                  /\ progressKey'[rq[r]].ttl = PROGRESS_TTL
                  /\ LET d == progressKey'[rq[r]].data IN
                     /\ d.status = "FAILED"
                     /\ d.progress = 0
                     /\ d.total_questions = 0
                     /\ d.message[1] = ExpectedLabel(exc[r].kind)
                     /\ ("error" \in DOMAIN d) <=> (exc[r].text # "")
                     /\ ("error" \in DOMAIN d) => d.error = exc[r].text]_vars

\* C7 witness: a task failed at persistence and its FAILED record, with the
\* error text, is the stored record
C7_Witness ==
    \E r \in Reqs :
        /\ pc[r] = "done"
        /\ stored[r] # << >> /\ stored[r][Len(stored[r])] = "FAILED"
        /\ Status(rq[r]) = "FAILED"
        /\ "error" \in DOMAIN progressKey[rq[r]].data

Finished(r) == pc[r] \in {"rejected", "done"}

\* C8 (as claimed): with the store connected and before any lifetime runs
\* out, once every request has been answered and every task has returned,
\* the record of each admitted request's quiz id is terminal.
C8_TerminalRecord ==
    (client = "Conn" /\ clock = 0 /\ \A r \in Reqs : Finished(r)) =>
        \A r \in Reqs : pc[r] = "done" => Status(rq[r]) \in TerminalStatus

\* C8 (amended): no request ever waits -- whatever its position, its next step
\* can be taken at once, so a refused request is refused in the step that
\* examines it -- and under fair scheduling every request that arrived is
\* answered and every admitted task returns after its terminal write call.
C8_TaskTerminates ==
    /\ [](\A r \in Reqs : (pc[r] # "idle" /\ ~Finished(r)) => ENABLED Step(r))
    /\ <>[](\A r \in Reqs : pc[r] = "idle" \/ Finished(r))

\* C8 witness: an admitted task has returned without a terminal record
C8_Witness ==
    \E r \in Reqs :
        /\ pc[r] = "done" /\ resp[r] = "success"
        /\ client = "Conn" /\ clock = 0
        /\ Status(rq[r]) \notin TerminalStatus

\* C9: while RedisClient has no connection, no step changes a key of the
\* store (only the passing of time does), an acquire enters the scope without
\* a LockError even when the key is held, and get_progress returns not-found
\* even when a record exists; no operation ends in an exception.
C9_DegradedMode ==
    [][client = "None" =>
        /\ clock' = clock => (lockKey' = lockKey /\ progressKey' = progressKey)
        /\ \A r \in Reqs :
              (pc[r] = "idle" /\ pc'[r] # "idle") =>
                  (pc'[r] = "scope_nolock" /\ resp'[r] = resp[r])
        /\ lastGet' # lastGet => lastGet'.data = NoRecord]_vars

\* C9 witness: without a connection a caller is inside the scope of a quiz id
\* whose key another process holds, and a get_progress has been answered
\* not-found for a quiz id that has a record
C9_Witness ==
    /\ client = "None"
    /\ \E r \in Reqs : pc[r] = "scope_nolock" /\ lockKey[rq[r]].token = ForeignToken
    /\ lastGet.quiz \in QuizIds
    /\ progressKey[lastGet.quiz] # NoProgress
    /\ lastGet.data = NoRecord

C11_LastWriteWins ==
    /\ [](is_available =>
            \A q \in QuizIds, d \in ProgressInputs :
                LET after == set_progress(q, d, TRUE) IN
                /\ after[q] = [data |-> d, ttl |-> PROGRESS_TTL]
                /\ \A q2 \in QuizIds \ {q} : after[q2] = progressKey[q2]
                /\ progressKey[q] = after[q] => after = progressKey)
    /\ [][(clock' = clock /\ progressKey' # progressKey) =>
            /\ lockKey' = lockKey
            /\ \A q \in QuizIds :
                  progressKey'[q] # progressKey[q] =>
                    \/ progressKey'[q] = NoProgress
                    \/ /\ progressKey'[q].ttl = PROGRESS_TTL
                       /\ progressKey'[q].data \in ProgressInputs]_vars

\* C11 witness: after the lock lifetime has passed (the lock key is gone and
\* the old record had 23h left) a write replaced the record of a quiz id and
\* the record has the full 24h again
C11_Witness ==
    \E q \in QuizIds :
        /\ clock = 1
        /\ lockKey[q] = FreeLock
        /\ progressKey[q].data.status = "COMPLETED"
        /\ progressKey[q].ttl = PROGRESS_TTL
        /\ \E q2 \in QuizIds : progressKey[q2].ttl = PROGRESS_TTL - LOCK_TTL

\* position of a status in the state machine; NONE is "no record"
StatusRank(st) ==
    CASE st = "NONE" -> 0
      [] st = "PENDING" -> 1
      [] st = "PROCESSING" -> 2
      [] st \in TerminalStatus -> 3

\* request r takes the step that makes its k-th set_progress call
IssuesWrite(r, k) == IssuedCount(pc[r]) = k - 1 /\ IssuedCount(pc'[r]) = k

\* C12 (as claimed): right after a task's set_progress call has returned, a
\* get_progress for the quiz id returns a record whose status is the one
\* written or a later one.
C12_ReadAfterWrite ==
    [][\A r \in Reqs : \A k \in 1..Len(IssuedOrder) :
        (client = "Conn" /\ IssuesWrite(r, k)) =>
            StatusRank(get_progress(rq[r], TRUE)'.status)
                >= StatusRank(IssuedOrder[k])]_vars

\* C12 (amended): right after a task's set_progress call has returned, a
\* get_progress the store answers returns exactly the record written if the
\* store kept the write, and what it would have returned before the call if
\* not; a get_progress the store does not answer returns not-found.
C12_ReadAfterKeptWrite ==
    [][\A r \in Reqs : \A k \in 1..Len(IssuedOrder) :
        IssuesWrite(r, k) =>
            /\ stored'[r] # stored[r] =>
                  /\ get_progress(rq[r], TRUE)' = progressKey'[rq[r]].data
                  /\ get_progress(rq[r], TRUE)'.status = IssuedOrder[k]
            /\ stored'[r] = stored[r] =>
                  get_progress(rq[r], TRUE)' = get_progress(rq[r], TRUE)
            /\ get_progress(rq[r], FALSE)' = NoRecord]_vars

\* C12 witness: a task's PENDING write was kept and a get_progress returns it
C12_Witness ==
    \E r \in Reqs :
        /\ pc[r] = "task_loading"
        /\ stored[r] = <<"PENDING">>
        /\ get_progress(rq[r], TRUE).status = "PENDING"

\* C13 (as claimed): once the endpoint has answered success, and with every
\* write issued so far kept, a status query for the quiz id finds a record,
\* and while the admitted task has not started that record is not terminal.
C13_RecordFromAdmission ==
    \A r \in Reqs :
        (resp[r] = "success" /\ client = "Conn" /\ clock = 0 /\ AllKept) =>
            /\ get_progress(rq[r], TRUE) # NoRecord
            /\ pc[r] = "task_pending" =>
                  get_progress(rq[r], TRUE).status \in ActiveStatus

\* C14: a request refused by validation is refused in the endpoint's first
\* step: that step changes no lock key, no progress record and schedules
\* nothing, the request never held a lock or wrote progress, and every
\* prompt shorter than 10 characters after stripping, the prompt "a" among
\* them, is refused whatever the repository checks would say.
C14_RejectedBeforeLock ==
    /\ [](\A p \in Prompts :
            p.len < 10 => \A checks \in ValidationOutcomes :
                validate_quiz_request(p, checks) = "BadRequest:prompt")
    /\ [](validate_prompt(PromptA) = "BadRequest:prompt")
    /\ [](\A r \in Reqs :
            resp[r] \in ((ValidationOutcomes \ {"ok"}) \cup {"BadRequest:prompt"}) =>
                /\ pc[r] = "rejected"
                /\ ~scheduled[r]
                /\ stored[r] = << >>
                /\ localToken[r] = NoToken)
    /\ [][\A r \in Reqs :
            (pc[r] = "endpoint" /\ pc'[r] = "rejected") =>
                /\ lockKey' = lockKey
                /\ progressKey' = progressKey
                /\ scheduled' = scheduled
                /\ localToken' = localToken]_vars

\* C14 witness: with the store connected a request was refused for its
\* prompt while the lock of its quiz id was free
C14_Witness ==
    \E r \in Reqs :
        /\ client = "Conn"
        /\ resp[r] = "BadRequest:prompt"
        /\ pc[r] = "rejected"
        /\ lockKey[rq[r]] = FreeLock

\* the exception class the endpoint raises for an answer
ExceptionClass(answer) ==
    CASE answer \in {"BadRequest", "BadRequest:prompt", "BadRequest:locked",
                     "BadRequest:redis_unavailable"} -> "BadRequestException"
      [] answer = "ResourceNotFound" -> "ResourceNotFoundException"
      [] answer = "Unauthorized" -> "UnauthorizedException"
      [] answer = "AccessDenied" -> "AccessDeniedException"
      [] OTHER -> answer

\* C15 (as claimed): a request refused because the lock of its quiz id is
\* held is answered with an error of another class than any validation
\* failure, schedules nothing, and the refusing step leaves every lock key
\* and progress record as it was.
C15_ConflictReported ==
    [][\A r \in Reqs :
        (pc[r] = "enter_lock" /\ pc'[r] = "rejected") =>
            /\ ExceptionClass(resp'[r]) \notin
                  {ExceptionClass(validate_quiz_request(p, checks)) :
                      p \in Prompts, checks \in ValidationOutcomes}
            /\ ~scheduled'[r]
            /\ lockKey' = lockKey
            /\ progressKey' = progressKey]_vars

\* C16 (as claimed): an execution whose validation, context loading,
\* generation call and parse all succeeded, so that it went on to persist
\* the parsed questions, ends by writing COMPLETED with progress 100.
C16_CompletedRecord ==
    [][\A r \in Reqs :
        (pc[r] = "handler" /\ exc[r].stage = "persist" /\ pc'[r] = "done"
            /\ stored'[r] # stored[r]) =>
                /\ progressKey'[rq[r]].data.status = "COMPLETED"
                /\ progressKey'[rq[r]].data.progress = 100]_vars

\* C17: for a text whose counts of "{" and "}" or of "[" and "]" differ, no
\* strategy is ever attempted: the call is at its truncation check or has
\* raised the truncation error.
C17_TruncationFirst ==
    (parserState.pc # "off" /\ Unbalanced(parserState.content)) =>
        /\ parserState.tried = << >>
        /\ parserState.pc \in {"check", "raised"}
        /\ parserState.pc = "raised" => parserState.result = TruncatedError

\* C17 witness: the truncation error was raised for an unbalanced text that
\* matches no truncation pattern and on which a strategy would have succeeded
C17_Witness ==
    /\ parserState.pc = "raised"
    /\ Unbalanced(parserState.content)
    /\ ~TruncationPattern(parserState.content)
    /\ parserState.result = TruncatedError
    /\ \E k \in 1..4 : Strategy(k, parserState.content, parserState.lenient).ok

\* what a strategy can raise
StrategyErrors == {"JSONDecodeError", "ValidationError", "OutputParserException"}

C19_ErrorCarriesRawPrefix ==
    (parserState.pc = "raised" /\ parserState.result.text = "failed_to_parse") =>
        /\ parserState.tried = <<1, 2, 3, 4>>
        /\ \E i \in DOMAIN parserState.result.detail :
              parserState.result.detail[i].part = "error"
        /\ \E i \in DOMAIN parserState.result.detail :
              parserState.result.detail[i].part = "raw"

\* C19 (amended): strategies run in the order 1, 2, 3, 4, each only after
\* all before it failed; the call returns the document of the first one that
\* succeeds and runs none after it; the parse error is raised only after all
\* four failed and its message holds the error of strategy 4 and nothing of
\* the raw text.
C19_FirstSuccessWins ==
    parserState.pc # "off" =>
        LET ps == parserState
            n == Len(ps.tried)
            Out(k) == Strategy(k, ps.content, ps.lenient)
        IN /\ n <= 4
           /\ ps.tried = [i \in 1..n |-> i]
           /\ \A i \in 1..(n - 1) : ~Out(i).ok
           /\ ps.pc \in {"try1", "try2", "try3", "try4"} =>
                 /\ ps.pc = <<"try1", "try2", "try3", "try4">>[n + 1]
                 /\ \A i \in 1..n : ~Out(i).ok
           /\ ps.pc = "returned" =>
                 /\ n >= 1
                 /\ Out(n).ok
                 /\ ps.result = [kind |-> "ok", doc |-> Out(n).doc]
           /\ (ps.pc = "raised" /\ ~is_truncated(ps.content)) =>
                 /\ n = 4
                 /\ \A i \in 1..4 : ~Out(i).ok
                 /\ ps.result = ParseFailure(Out(4).err)
                 /\ ps.result.detail = <<[part |-> "error", value |-> Out(4).err]>>

\* C19 witness: the third strategy returned the document after the first two
\* had failed
C19_Witness ==
    /\ parserState.pc = "returned"
    /\ parserState.tried = <<1, 2, 3>>
    /\ parserState.result.kind = "ok"

\* the text is prose, then a fenced block, tagged or not, holding one
\* schema-valid document, and nothing else
ProseThenFence(content) ==
    \E n \in 1..Len(content) :
        /\ \A i \in 1..n : content[i] \in ProseTokens
        /\ \/ SubSeq(content, n + 1, Len(content)) \in
                {<<"FENCE", d, "FENCE">> : d \in ValidDocs}
           \/ SubSeq(content, n + 1, Len(content)) \in
                {<<"FENCE", t, d, "FENCE">> : t \in {"json", "py"}, d \in ValidDocs}

\* C20 (as claimed): a call on prose followed by a fenced block with a
\* schema-valid document ends by returning that document.
C20_FencedBlockParsed ==
    (parserState.pc \in {"returned", "raised"}
        /\ ProseThenFence(parserState.content)) =>
            /\ parserState.pc = "returned"
            /\ parserState.result.doc = parserState.content[Len(parserState.content) - 1]

\* C27: a held lock key changes only when its lifetime runs out or when its
\* holder runs the release of its own scope, which frees it; an acquire that
\* fails leaves every lock key as it was, and so does the release of a
\* request whose token is no longer the one in the key.
C27_OnlyHolderReleases ==
    [][/\ \A q \in QuizIds :
            (lockKey[q].token # NoToken /\ lockKey'[q] # lockKey[q]) =>
                \/ clock' # clock
                \/ /\ lockKey[q].token \in Reqs
                   /\ pc[lockKey[q].token] = "release"
                   /\ pc'[lockKey[q].token] # "release"
                   /\ rq[lockKey[q].token] = q
                   /\ lockKey'[q] = FreeLock
       /\ \A r \in Reqs :
            (pc[r] = "enter_lock" /\ pc'[r] = "rejected") => lockKey' = lockKey
       /\ \A r \in Reqs :
            (pc[r] = "release" /\ pc'[r] # "release"
                /\ lockKey[rq[r]].token # localToken[r]) => lockKey' = lockKey]_vars

\* C27 witness: a request was refused for a held lock, its finally block has
\* run, and the holder is still inside its scope with the key and a full
\* lifetime, taken after an earlier lock on the key had expired
C27_Witness ==
    \E r1, r2 \in Reqs :
        /\ r1 # r2
        /\ rq[r1] = rq[r2]
        /\ pc[r1] = "rejected" /\ resp[r1] = "BadRequest:locked"
        /\ pc[r2] = "scope"
        /\ lockKey[rq[r2]] = [token |-> r2, ttl |-> LOCK_TTL]
        /\ clock = 1

\* C28 (as claimed): a request that has been handed the RedisClient never
\* coexists with a connect() that is still waiting for its ping.
C28_ConnectCompleted ==
    \A r \in Reqs :
        pc[r] \notin {"idle", "ping"} => \A r2 \in Reqs : pc[r2] # "ping"

\* C30 (as claimed): a call on a text that is exactly one schema-valid
\* document ends by returning that document.
C30_ValidDocumentParsed ==
    (parserState.pc \in {"returned", "raised"}
        /\ Len(parserState.content) = 1
        /\ parserState.content[1] \in ValidDocs) =>
            /\ parserState.pc = "returned"
            /\ parserState.result.doc = parserState.content[1]

\* ---- RRFFusion ----
InList(list, id) == \E i \in 1..Len(list) : list[i] = id
\* 1-based position of an id in a ranked list, 0 when it is absent
PosIn(list, id) ==
    IF InList(list, id) THEN CHOOSE i \in 1..Len(list) : list[i] = id ELSE 0
\* ids that occur in the lexical or in the dense list of the call
Listed ==
    {id \in PassageIds(fuseState.n) :
        InList(fuseState.bm25_results, id) \/ InList(fuseState.dense_results, id)}
\* reciprocal-rank share of one list: 1/(rrf_k + rank + 1) at 0-based rank,
\* nothing when absent
Share(list, id) ==
    IF InList(list, id) THEN Frac(1, fuseState.rrf_k + PosIn(list, id))
    ELSE Frac(0, 1)
RrfScore(id) ==
    AddFrac(Share(fuseState.bm25_results, id), Share(fuseState.dense_results, id))
\* place at which an id was first met: lexical list, then dense list
FirstSeen(id) ==
    IF InList(fuseState.bm25_results, id) THEN PosIn(fuseState.bm25_results, id)
    ELSE Len(fuseState.bm25_results) + PosIn(fuseState.dense_results, id)
Precedes(a, b) ==
    \/ LessFrac(RrfScore(b), RrfScore(a))
    \/ EqFrac(RrfScore(a), RrfScore(b)) /\ FirstSeen(a) < FirstSeen(b)
ScoreOf(scores, id) ==
    scores[CHOOSE i \in 1..Len(scores) : scores[i].idx = id].score

\* C21: fuse gives every listed id the sum of 1/(rrf_k + rank + 1) over the
\* lists that hold it, and returns the listed ids in descending score, equal
\* scores in first-seen order (lexical before dense), cut to top_k ids.
C21_FusedRanking ==
    fuseState.pc = "returned" =>
        LET res == fuseState.result
            sc == fuseState.scores
        IN /\ {sc[i].idx : i \in 1..Len(sc)} = Listed
           /\ \A i \in 1..Len(sc) : EqFrac(sc[i].score, RrfScore(sc[i].idx))
           /\ Len(res) <= fuseState.top_k
           /\ Len(res) = IF Cardinality(Listed) < fuseState.top_k
                         THEN Cardinality(Listed) ELSE fuseState.top_k
           /\ \A i \in 1..Len(res) : res[i] \in Listed
           /\ \A i, j \in 1..Len(res) : i < j => Precedes(res[i], res[j])
           /\ \A i \in 1..Len(res) : \A b \in Listed :
                Precedes(b, res[i]) => \E j \in 1..(i - 1) : res[j] = b

\* C21 witness: a lexical-only id and a dense-only id tie, the lexical one is
\* returned and the dense one is cut off by top_k
C21_Witness ==
    /\ fuseState.pc = "returned"
    /\ \E a, b \in Listed :
        /\ InList(fuseState.bm25_results, a) /\ ~ InList(fuseState.dense_results, a)
        /\ InList(fuseState.dense_results, b) /\ ~ InList(fuseState.bm25_results, b)
        /\ EqFrac(RrfScore(a), RrfScore(b))
        /\ fuseState.result[Len(fuseState.result)] = a
        /\ ~ InList(fuseState.result, b)

\* C22: an id at rank r in only one list scores strictly less than an id at
\* rank r in both lists (the score the same rank earns when both lists hold
\* it), and an id in both lists scores at least the share of its better rank.
C22_BothListsScoreHigher ==
    fuseState.pc = "returned" =>
        LET L == fuseState.bm25_results
            D == fuseState.dense_results
            k == fuseState.rrf_k
            sc == fuseState.scores
        IN /\ \A r \in 1..Len(L) :
                ~ InList(D, L[r]) =>
                    LessFrac(ScoreOf(sc, L[r]),
                             ScoreOf(FusedScores(L, L, k), L[r]))
           /\ \A r \in 1..Len(D) :
                ~ InList(L, D[r]) =>
                    LessFrac(ScoreOf(sc, D[r]),
                             ScoreOf(FusedScores(D, D, k), D[r]))
           /\ \A id \in Listed :
                (InList(L, id) /\ InList(D, id)) =>
                    /\ ~ LessFrac(ScoreOf(sc, id), Frac(1, k + PosIn(L, id)))
                    /\ ~ LessFrac(ScoreOf(sc, id), Frac(1, k + PosIn(D, id)))

\* C22 witness: a call that scored an id held by one list only and an id
\* held by both, the second at a worse rank in each list than the first
C22_Witness ==
    /\ fuseState.pc = "returned"
    /\ \E a, b \in Listed :
        /\ InList(fuseState.bm25_results, a) /\ ~ InList(fuseState.dense_results, a)
        /\ InList(fuseState.bm25_results, b) /\ InList(fuseState.dense_results, b)
        /\ PosIn(fuseState.bm25_results, a) < PosIn(fuseState.bm25_results, b)
        /\ PosIn(fuseState.bm25_results, a) < PosIn(fuseState.dense_results, b)

\* C23 (as claimed): search returns the top_k best-scored passages, best
\* first, and of two passages with equal score the earlier one in the
\* passage list comes first.
C23_TiesInPassageOrder ==
    fuseState.pc \in {"dense_search", "fuse", "returned"} =>
        LET res == fuseState.bm25_results
            s == fuseState.bm25_scores
        IN /\ Len(res) = IF fuseState.n < fuseState.top_k
                         THEN fuseState.n ELSE fuseState.top_k
           /\ \A i, j \in 1..Len(res) : i < j =>
                \/ s[res[i]] > s[res[j]]
                \/ s[res[i]] = s[res[j]] /\ res[i] < res[j]
           /\ \A i \in 1..Len(res) : \A b \in PassageIds(fuseState.n) :
                (s[b] > s[res[i]] \/ (s[b] = s[res[i]] /\ b < res[i])) =>
                    \E j \in 1..(i - 1) : res[j] = b

\* ---- DenseRetriever ----
\* C24 (as claimed): the index a retriever queries was built from its own
\* passage set, and every id it returns is a position of its passage list.
C24_IndexOfOwnPassages ==
    \A r \in Retrievers :
        Ret(r).result.returned =>
            /\ Ret(r).result.index.set = Ret(r).set
            /\ \A i \in Ret(r).result.ids : 0 <= i /\ i < Size(Ret(r).set)

\* C25: a retriever whose index build failed on the embedding service ends
\* with the error: it returns no candidates, has written neither file, and
\* its job never reaches the generation-model call.
C25_BuildFailureAborts ==
    \A r \in Retrievers :
        Ret(r).error = "build" =>
            /\ Ret(r).pc = "raised"
            /\ ~ Ret(r).result.returned
            /\ ~ Ret(r).llm
            /\ denseState.embed_path.by # r
            /\ denseState.index_path.by # r
            /\ ~ ENABLED generate(r)

\* C25 witness: a build failed on the embedding service while the other job
\* built, persisted and went on to generation
C25_Witness ==
    \E r1, r2 \in Retrievers :
        /\ Ret(r1).pc = "raised" /\ Ret(r1).error = "build"
        /\ Ret(r2).pc = "generated"
        /\ denseState.index_path = Built(Ret(r2).set, r2)

\* C26 (as claimed): a job on an empty passage set gets an empty candidate
\* sequence and no error.
C26_EmptySourceReturnsEmpty ==
    \A r \in Retrievers :
        (Ret(r).set = "empty" /\ Ret(r).pc # "new") =>
            /\ Ret(r).error = "none"
            /\ Ret(r).result.returned
            /\ Ret(r).result.ids = {}

\* C29 (as claimed): whenever both files exist they were written by the
\* same build, and a retriever that loaded both holds a matching pair.
C29_FilesFromSameBuild ==
    /\ (denseState.embed_path # NoContent /\ denseState.index_path # NoContent) =>
            denseState.embed_path = denseState.index_path
    /\ \A r \in Retrievers :
        (Ret(r).embeddings # NoContent /\ Ret(r).index # NoContent) =>
            Ret(r).embeddings = Ret(r).index
====
